---- MODULE Spec2Model ----
(***************************************************************************)
(* Planck Scribe (src/src/main.rs): a GUI application object MyApp that    *)
(* loads a Standard MIDI File, keeps the NoteOn events of every track and  *)
(* maps each pitch to a key label of a Planck keyboard layout.             *)
(*                                                                         *)
(* Conventions of the model:                                               *)
(*   Option<T>   None is << >>, Some(x) is <<x>>                           *)
(*   String      a key label or an instrument name is a TLA+ string; a     *)
(*               track name is a sequence of string fragments whose        *)
(*               concatenation is the name; a path is a sequence of        *)
(*               one-character strings, so that ends_with can be computed  *)
(*   HashMap     a function whose DOMAIN is the set of keys                *)
(*   Vec         a sequence                                                *)
(***************************************************************************)
EXTENDS Integers, Sequences, FiniteSets, TLC

VARIABLES
    picked_midi_path,           \* MyApp.picked_midi_path : Option<String>
    midi_key_tracks,            \* MyApp.midi_key_tracks : Vec<MidiKeyTrack>
    key_to_keyboard_mapping,    \* MyApp.key_to_keyboard_mapping : HashMap<u8, String>
    program_to_string_mapping,  \* MyApp.program_to_string_mapping : HashMap<u8, String>
    layout,                     \* the arguments chromatic_planck_mapping is called with
    mapping_ret,                \* how that call ended: "none" (not yet called), "Ok", "panic"
    event,                      \* the input event the last frame handled
    call,                       \* the load_midi_file call of the last frame, if any
    last_ok                     \* the parsed file of the most recent successful load, if any

vars == <<picked_midi_path, midi_key_tracks, key_to_keyboard_mapping,
          program_to_string_mapping, layout, mapping_ret, event, call, last_ok>>

None == << >>

Some(x) == <<x>>

Range(s) == {s[i] : i \in DOMAIN s}

(***************************************************************************)
(* The chromatic mapping                                                   *)
(***************************************************************************)

MIDI_C_KEY == 60

\* Mutant: the layout with a double-width space bar, 11 keys in the bottom row.
default_planck_rows_mit ==
    << <<"TAB", "Q", "W", "E", "R", "T", "Y", "U", "I", "O", "P", "BCK">>,
       <<"ESC", "A", "S", "D", "F", "G", "H", "J", "K", "L", ";", "'">>,
       <<"SHF", "Z", "X", "C", "V", "B", "N", "M", ",", ".", "/", "ETR">>,
       <<"", "CTRL", "ALT", "ORYX", "OS", "SPACE", "SHFUP", "<-", "\\/", "/\\", "->">> >>

default_planck_rows ==
    << <<"TAB", "Q", "W", "E", "R", "T", "Y", "U", "I", "O", "P", "BCK">>,
       <<"ESC", "A", "S", "D", "F", "G", "H", "J", "K", "L", ";", "'">>,
       <<"SHF", "Z", "X", "C", "V", "B", "N", "M", ",", ".", "/", "ETR">>,
       <<"", "CTRL", "ALT", "ORYX", "OS", "SHFDOWN", "SPACE", "SHFUP", "<-", "\\/", "/\\", "->">> >>

\* The order in which `for row in rows.iter() { for key in row { .. } }` visits
\* the keys: row after row, each row left to right.
RECURSIVE RowMajor(_)
RowMajor(rows) ==
    IF rows = << >> THEN << >> ELSE Head(rows) \o RowMajor(Tail(rows))

\* i32 -> u8 try_into: Ok exactly for the values of u8.
TryIntoU8Ok(x) == x >= 0 /\ x <= 255

\* One pass of the first loop's body, at the key after the st.base_index keys
\* already counted: `break 'outer` with found_base_key set, or one more key
\* counted.
FindBaseKeyStep(keys, base_key, st) ==
    IF keys[st.base_index + 1] = base_key
    THEN [found_base_key |-> TRUE, base_index |-> st.base_index]
    ELSE [found_base_key |-> FALSE, base_index |-> st.base_index + 1]

\* The first loop, continued from the state st through the key at position hi
\* of the visiting order (1-based), unless it has broken out. A stretch of
\* several keys is run as its first half followed by its second half.
RECURSIVE FindBaseKey(_, _, _, _)
FindBaseKey(keys, hi, base_key, st) ==
    LET lo == st.base_index + 1
    IN  IF st.found_base_key \/ lo > hi THEN st
        ELSE IF lo = hi THEN FindBaseKeyStep(keys, base_key, st)
        ELSE FindBaseKey(keys, hi, base_key,
                         FindBaseKey(keys, (lo + hi) \div 2, base_key, st))

\* Mutant: the offset from the base key is left out.
MidiKeyI32_unanchored(index, base_index) == MIDI_C_KEY + index

\* The pitch of the key visited with the counter at index.
MidiKeyI32(index, base_index) == MIDI_C_KEY + (index - base_index)

\* HashMap::insert: a later insert of the same key replaces the value.
Insert(map, k, v) == (k :> v) @@ map

\* One pass of the second loop's body, at the key after the st.index keys
\* already visited: the key is inserted when its pitch fits a u8, and the
\* counter is advanced.
InsertKey(keys, base_index, st) ==
    LET midi_key_i32 == MidiKeyI32(st.index, base_index)
        keyboard_key == keys[st.index + 1]
    IN  [index |-> st.index + 1,
         map |-> IF TryIntoU8Ok(midi_key_i32)
                 THEN Insert(st.map, midi_key_i32, keyboard_key)
                 ELSE st.map]

\* The second loop, continued from the state st through the key at position
\* hi: first half, then second half.
RECURSIVE InsertKeys(_, _, _, _)
InsertKeys(keys, hi, base_index, st) ==
    LET lo == st.index + 1
    IN  IF lo > hi THEN st
        ELSE IF lo = hi THEN InsertKey(keys, base_index, st)
        ELSE InsertKeys(keys, hi, base_index,
                        InsertKeys(keys, (lo + hi) \div 2, base_index, st))

\* chromatic_planck_mapping: "panic" when base_key is no key of rows.
chromatic_planck_mapping(base_key, rows) ==
    LET keys == RowMajor(rows)
        base == FindBaseKey(keys, Len(keys), base_key,
                            [found_base_key |-> FALSE, base_index |-> 0])
    IN  IF ~base.found_base_key
        THEN [ret |-> "panic", map |-> << >>]
        ELSE [ret |-> "Ok",
              map |-> InsertKeys(keys, Len(keys), base.base_index,
                                 [index |-> 0, map |-> << >>]).map]

(***************************************************************************)
(* The General MIDI program names                                          *)
(***************************************************************************)

\* The array `mappings` of program_to_string, in source order (the source's
\* one non-ASCII letter, in entry 114, is written as its ASCII base letter).
mappings ==
    <<
       <<0, "Piano">>,
       <<1, "Acoustic Grand Piano or Piano 1">>,
       <<2, "Bright Acoustic Piano or Piano 2">>,
       <<3, "Electric Grand Piano or Piano 3 (usually modeled after Yamaha CP70)">>,
       <<4, "Honky-tonk Piano">>,
       <<5, "Electric Piano 1 (usually a Rhodes piano)">>,
       <<6, "Electric Piano 2 (usually an FM piano patch)">>,
       <<7, "Harpsichord">>,
       <<8, "Clavinet">>,
       <<9, "Celesta">>,
       <<10, "Glockenspiel">>,
       <<11, "Music Box">>,
       <<12, "Vibraphone">>,
       <<13, "Marimba">>,
       <<14, "Xylophone">>,
       <<15, "Tubular Bells">>,
       <<16, "Dulcimer or Santoor">>,
       <<17, "Drawbar Organ or Organ 1">>,
       <<18, "Percussive Organ or Organ 2">>,
       <<19, "Rock Organ or Organ 3">>,
       <<20, "Church Organ">>,
       <<21, "Reed Organ">>,
       <<22, "Accordion">>,
       <<23, "Harmonica">>,
       <<24, "Bandoneon or Tango Accordion">>,
       <<25, "Acoustic Guitar (nylon)">>,
       <<26, "Acoustic Guitar (steel)">>,
       <<27, "Electric Guitar (jazz)">>,
       <<28, "Electric Guitar (clean, usually resembling a Fender Stratocaster ran through a Roland Jazz Chorus amp)">>,
       <<29, "Electric Guitar (muted)">>,
       <<30, "Electric Guitar (overdriven)">>,
       <<31, "Electric Guitar (distortion)">>,
       <<32, "Electric Guitar (harmonics)">>,
       <<33, "Acoustic Bass">>,
       <<34, "Electric Bass (finger)">>,
       <<35, "Electric Bass (picked)">>,
       <<36, "Electric Bass (fretless)">>,
       <<37, "Slap Bass 1">>,
       <<38, "Slap Bass 2">>,
       <<39, "Synth Bass 1">>,
       <<40, "Synth Bass 2">>,
       <<41, "Violin">>,
       <<42, "Viola">>,
       <<43, "Cello">>,
       <<44, "Contrabass">>,
       <<45, "Tremolo Strings">>,
       <<46, "Pizzicato Strings">>,
       <<47, "Orchestral Harp">>,
       <<48, "Timpani">>,
       <<49, "String Ensemble 1">>,
       <<50, "String Ensemble 2">>,
       <<51, "Synth Strings 1">>,
       <<52, "Synth Strings 2">>,
       <<53, "Choir Aahs">>,
       <<54, "Voice Oohs (or Doos)">>,
       <<55, "Synth Voice or Synth Choir">>,
       <<56, "Orchestra Hit">>,
       <<57, "Trumpet">>,
       <<58, "Trombone">>,
       <<59, "Tuba">>,
       <<60, "Muted Trumpet">>,
       <<61, "French Horn">>,
       <<62, "Brass Section">>,
       <<63, "Synth Brass 1">>,
       <<64, "Synth Brass 2">>,
       <<65, "Soprano Sax">>,
       <<66, "Alto Sax">>,
       <<67, "Tenor Sax">>,
       <<68, "Baritone Sax">>,
       <<69, "Oboe">>,
       <<70, "English Horn">>,
       <<71, "Bassoon">>,
       <<72, "Clarinet">>,
       <<73, "Piccolo">>,
       <<74, "Flute">>,
       <<75, "Recorder">>,
       <<76, "Pan Flute">>,
       <<77, "Blown bottle">>,
       <<78, "Shakuhachi">>,
       <<79, "Whistle">>,
       <<80, "Ocarina">>,
       <<81, "Lead 1 (square, often chorused)">>,
       <<82, "Lead 2 (sawtooth, often chorused)">>,
       <<83, "Lead 3 (triangle, or calliope, usually resembling a woodwind)">>,
       <<84, "Lead 4 (sine, or chiff)">>,
       <<85, "Lead 5 (charang, a guitar-like lead)">>,
       <<86, "Lead 6 (voice)">>,
       <<87, "Lead 7 (fifths)">>,
       <<88, "Lead 8 (bass and lead or solo lead)">>,
       <<89, "Pad 1 (new age, pad stacked with a bell, often derived from \"Fantasia\" patch from Roland D-50)">>,
       <<90, "Pad 2 (warm, a mellower saw pad)">>,
       <<91, "Pad 3 (polysynth or poly, a saw-like percussive pad resembling an early 1980s polyphonic synthesizer)">>,
       <<92, "Pad 4 (choir, similar to \"synth voice\")">>,
       <<93, "Pad 5 (bowed glass or bowed, a sound resembling a glass harmonica)">>,
       <<94, "Pad 6 (metallic, often created from a grand piano sample played with the attack removed)">>,
       <<95, "Pad 7 (halo, choir-like pad)">>,
       <<96, "Pad 8 (sweep, pad with a pronounced \"wah\" filter effect)">>,
       <<97, "FX 1 (rain, a bright pluck with echoing pulses)">>,
       <<98, "FX 2 (soundtrack, a bright perfect fifth pad)">>,
       <<99, "FX 3 (crystal, a synthesized bell sound)">>,
       <<100, "FX 4 (atmosphere, usually a classical guitar-like sound)">>,
       <<101, "FX 5 (brightness, a fast-attack stacked pad with choir or bell)">>,
       <<102, "FX 6 (goblins, a slow-attack pad with chirping or murmuring sounds)">>,
       <<103, "FX 7 (echoes or echo drops, similar to \"rain\")">>,
       <<104, "FX 8 (sci-fi or star theme, usually an electric guitar-like pad)">>,
       <<105, "Sitar">>,
       <<106, "Banjo">>,
       <<107, "Shamisen">>,
       <<108, "Koto">>,
       <<109, "Kalimba">>,
       <<110, "Bag pipe">>,
       <<111, "Fiddle">>,
       <<112, "Shanai">>,
       <<113, "Tinkle Bell">>,
       <<114, "Agogo or cowbell">>,
       <<115, "Steel Drums">>,
       <<116, "Woodblock">>,
       <<117, "Taiko Drum">>,
       <<118, "Melodic Tom or 808 Toms">>,
       <<119, "Synth Drum">>,
       <<120, "Reverse Cymbal">>,
       <<121, "Guitar Fret Noise">>,
       <<122, "Breath Noise">>,
       <<123, "Seashore">>,
       <<124, "Bird Tweet">>,
       <<125, "Telephone Ring">>,
       <<126, "Helicopter">>,
       <<127, "Applause">>,
       <<128, "Gunshot">>
    >>

\* Mutant: the table numbered from 1, as General MIDI numbers its programs.
program_to_string_from_one ==
    [p \in {mappings[i][1] : i \in DOMAIN mappings} \ {0} |->
        LET last == CHOOSE i \in DOMAIN mappings :
                        /\ mappings[i][1] = p
                        /\ \A j \in DOMAIN mappings : mappings[j][1] = p => j <= i
        IN  mappings[last][2]]

\* .into_iter().map(..).collect() into a HashMap: one entry per key, the last
\* pair of a key winning.
program_to_string ==
    [p \in {mappings[i][1] : i \in DOMAIN mappings} |->
        LET last == CHOOSE i \in DOMAIN mappings :
                        /\ mappings[i][1] = p
                        /\ \A j \in DOMAIN mappings : mappings[j][1] = p => j <= i
        IN  mappings[last][2]]

(***************************************************************************)
(* MIDI files                                                              *)
(*                                                                         *)
(* fs::read and midly::Smf::parse are library code: what they hand to      *)
(* load_midi_file is a read error, a parse error, or the parsed file, a    *)
(* sequence of tracks, each a sequence of events.                          *)
(***************************************************************************)

NoteOn(key, vel) ==
    [kind |-> "Midi", message |-> "NoteOn", key |-> key, vel |-> vel, program |-> 0]

NoteOff(key, vel) ==
    [kind |-> "Midi", message |-> "NoteOff", key |-> key, vel |-> vel, program |-> 0]

ProgramChange(program) ==
    [kind |-> "Midi", message |-> "ProgramChange", key |-> 0, vel |-> 0, program |-> program]

\* An event that is not TrackEventKind::Midi (a meta event, a sysex, ...).
MetaEvent == [kind |-> "Meta", message |-> "none", key |-> 0, vel |-> 0, program |-> 0]

Unreadable == [kind |-> "unreadable", tracks |-> << >>]

Malformed == [kind |-> "malformed", tracks |-> << >>]

Smf(tracks) == [kind |-> "smf", tracks |-> tracks]

(***************************************************************************)
(* load_midi_file                                                          *)
(***************************************************************************)

Digits == <<"0", "1", "2", "3", "4", "5", "6", "7", "8", "9">>

\* The decimal digits `{}` prints for an unsigned number.
RECURSIVE Decimal(_)
Decimal(n) ==
    IF n < 10 THEN <<Digits[n + 1]>>
    ELSE Decimal(n \div 10) \o <<Digits[(n % 10) + 1]>>

\* format!("Channel {}", channel_num)
ChannelName(channel_num) == <<"Channel ">> \o Decimal(channel_num)

\* MidiKeyTrack::new(): an empty name and no pairs.
MidiKeyTrack_new == [name |-> << >>, midi_key_pairs |-> << >>]

\* HashMap::get(..).and_then(|key| Some(key.to_string()))
Lookup(map, k) == IF k \in DOMAIN map THEN Some(map[k]) ELSE None

\* Mutant: a NoteOn of velocity 0 is taken for a note-off and dropped.
OnNoteOn_skip_silent(track, key, vel, mapping) ==
    IF vel = 0 THEN track
    ELSE [track EXCEPT !.midi_key_pairs =
             Append(@, [midi_key |-> key, keyboard_key |-> Lookup(mapping, key)])]

\* The NoteOn arm: one pair is pushed, whatever the velocity.
OnNoteOn(track, key, vel, mapping) ==
    [track EXCEPT !.midi_key_pairs =
        Append(@, [midi_key |-> key, keyboard_key |-> Lookup(mapping, key)])]

\* Mutant: a program change is only honoured before the track's first note.
OnProgramChange_before_notes(track, program, table) ==
    IF program \in DOMAIN table /\ track.midi_key_pairs = << >>
    THEN [track EXCEPT !.name = <<table[program]>>]
    ELSE track

\* The ProgramChange arm: the name is replaced when the table knows the program.
OnProgramChange(track, program, table) ==
    IF program \in DOMAIN table
    THEN [track EXCEPT !.name = <<table[program]>>]
    ELSE track

\* The body of `for note in track` up to the counter: only Midi events are
\* looked at, and of those only NoteOn and ProgramChange do anything.
OnEvent(track, note, mapping, table) ==
    IF note.kind = "Midi"
    THEN CASE note.message = "NoteOn" -> OnNoteOn(track, note.key, note.vel, mapping)
           [] note.message = "ProgramChange" -> OnProgramChange(track, note.program, table)
           [] OTHER -> track
    ELSE track

\* channel_num += 1 on a u32. The counter overflows only past 2^32 - 1 events,
\* more than any file here holds and more than TLC's integers reach, so the
\* addition is exact.
NextChannelNum(channel_num) == channel_num + 1

\* `for note in track { .. channel_num += 1; }`: the counter is advanced once
\* per event of the track.
RECURSIVE TrackLoop(_, _, _, _, _, _)
TrackLoop(notes, i, track, channel_num, mapping, table) ==
    IF i > Len(notes) THEN [track |-> track, channel_num |-> channel_num]
    ELSE TrackLoop(notes, i + 1, OnEvent(track, notes[i], mapping, table),
                   NextChannelNum(channel_num), mapping, table)

\* `for track in parsed_midi.tracks { .. self.midi_key_tracks.push(..) }`
RECURSIVE FileLoop(_, _, _, _, _, _)
FileLoop(tracks, t, out, channel_num, mapping, table) ==
    IF t > Len(tracks) THEN out
    ELSE LET named == [MidiKeyTrack_new EXCEPT !.name = ChannelName(channel_num)]
             done == TrackLoop(tracks[t], 1, named, channel_num, mapping, table)
         IN  FileLoop(tracks, t + 1, Append(out, done.track), done.channel_num,
                      mapping, table)

\* Mutant: the clear is missing.
Clear_missing(v) == v

\* Vec::clear
Clear(v) == << >>

\* Mutant: the cache is cleared before the file is read and parsed.
load_midi_file_clear_first(self, path, file) ==
    LET picked == Some(path)
    IN  CASE file.kind = "unreadable" ->
               [picked_midi_path |-> picked, midi_key_tracks |-> << >>,
                ret |-> "IOError"]
          [] file.kind = "malformed" ->
               [picked_midi_path |-> picked, midi_key_tracks |-> << >>,
                ret |-> "MidlyError"]
          [] OTHER ->
               [picked_midi_path |-> picked,
                midi_key_tracks |->
                    FileLoop(file.tracks, 1, << >>, 1,
                             self.key_to_keyboard_mapping, self.program_to_string_mapping),
                ret |-> "Ok"]

\* load_midi_file(&mut self, path) where reading and parsing path gives file:
\* the fields of self it leaves behind and what it returns.
load_midi_file(self, path, file) ==
    LET picked == Some(path)
    IN  CASE file.kind = "unreadable" ->
               [picked_midi_path |-> picked, midi_key_tracks |-> self.midi_key_tracks,
                ret |-> "IOError"]
          [] file.kind = "malformed" ->
               [picked_midi_path |-> picked, midi_key_tracks |-> self.midi_key_tracks,
                ret |-> "MidlyError"]
          [] OTHER ->
               [picked_midi_path |-> picked,
                midi_key_tracks |->
                    FileLoop(file.tracks, 1, Clear(self.midi_key_tracks), 1,
                             self.key_to_keyboard_mapping, self.program_to_string_mapping),
                ret |-> "Ok"]

(***************************************************************************)
(* Paths and the two ways a file reaches load_midi_file                    *)
(***************************************************************************)

\* A unit of an OS path that is not valid Unicode, and what Path::display
\* prints in its place (U+FFFD).
BadUnit == "<invalid>"

Replacement == "<U+FFFD>"

\* Path::to_str: None unless the whole path is valid Unicode.
to_str(path) == IF BadUnit \in Range(path) THEN None ELSE Some(path)

\* path.display().to_string(): lossy, never fails.
display(path) == [i \in DOMAIN path |-> IF path[i] = BadUnit THEN Replacement ELSE path[i]]

\* str::ends_with
ends_with(s, suffix) ==
    /\ Len(s) >= Len(suffix)
    /\ SubSeq(s, Len(s) - Len(suffix) + 1, Len(s)) = suffix

DotMid == <<".", "m", "i", "d">>

DotMidi == <<".", "m", "i", "d", "i">>

\* .filter(|x| x.ends_with(".mid") || x.ends_with(".midi"))
IsMidiName(x) == ends_with(x, DotMid) \/ ends_with(x, DotMidi)

\* .filter_map(|x| x.path.clone()): the paths of the files that have one.
RECURSIVE PathsOf(_)
PathsOf(files) ==
    IF files = << >> THEN << >>
    ELSE (IF Head(files).path = None THEN << >> ELSE <<Head(files).path[1]>>)
         \o PathsOf(Tail(files))

\* .filter_map(|path| path.to_str().and_then(|x| Some(x.to_string())))
RECURSIVE StringsOf(_)
StringsOf(paths) ==
    IF paths = << >> THEN << >>
    ELSE to_str(Head(paths)) \o StringsOf(Tail(paths))

\* Mutant: the last match is taken.
NthLast(s) == IF s = << >> THEN None ELSE Some(s[Len(s)])

\* .nth(0)
Nth0(s) == IF s = << >> THEN None ELSE Some(Head(s))

\* The path collect_dropped_files hands to load_midi_file, if any.
DroppedMidiPath(dropped_files) ==
    Nth0(SelectSeq(StringsOf(PathsOf(dropped_files)), IsMidiName))

(***************************************************************************)
(* The application object                                                  *)
(***************************************************************************)

\* MyApp::default()
MyApp_default ==
    [program_to_string_mapping |-> program_to_string,
     picked_midi_path |-> None,
     midi_key_tracks |-> << >>,
     key_to_keyboard_mapping |-> chromatic_planck_mapping("ESC", default_planck_rows).map]

\* The fields of the application object now.
app ==
    [picked_midi_path |-> picked_midi_path,
     midi_key_tracks |-> midi_key_tracks,
     key_to_keyboard_mapping |-> key_to_keyboard_mapping,
     program_to_string_mapping |-> program_to_string_mapping]

NoEvent == [kind |-> "none", picked |-> None, dropped_files |-> << >>]

\* A frame in which load_midi_file(path) runs, file being what reading and
\* parsing path gives.
Load(path, file) ==
    LET r == load_midi_file(app, path, file)
    IN  /\ picked_midi_path' = r.picked_midi_path
        /\ midi_key_tracks' = r.midi_key_tracks
        /\ call' = Some([path |-> path, file |-> file, ret |-> r.ret])
        /\ last_ok' = IF r.ret = "Ok" THEN Some(file) ELSE last_ok
        /\ UNCHANGED <<key_to_keyboard_mapping, program_to_string_mapping>>

\* A frame in which load_midi_file does not run.
NoLoad ==
    /\ call' = None
    /\ UNCHANGED <<picked_midi_path, midi_key_tracks, key_to_keyboard_mapping,
                   program_to_string_mapping, last_ok>>

(***************************************************************************)
(* Bounds and inputs                                                       *)
(***************************************************************************)

MaxRows == 2

MaxRowLen == 2

MaxTracks == 2

MaxNotes == 3

MaxDropped == 2

SeqsUpTo(S, n) == UNION {[1..k -> S] : k \in 0..n}

\* Layouts: small ones over two labels, and long ones whose keys run out of
\* the u8 pitches below and above.
Labels == {"A", "B"}

Pad == "pad"

PadRow(n) == [i \in 1..n |-> Pad]

PadBefore == MIDI_C_KEY + 2

PadAfter == (255 - MIDI_C_KEY) + 2

LayoutRows(len) == SeqsUpTo(Labels, len)

Layouts(rows, len) ==
    SeqsUpTo(LayoutRows(len), rows)
    \cup {<<PadRow(PadBefore), r>> : r \in LayoutRows(len)}
    \cup {<<r[1], PadRow(PadAfter), r[2]>> : r \in LayoutRows(len) \X LayoutRows(len)}

BaseKeys == Labels \cup {Pad}

\* Events: a mapped and an unmapped pitch, a zero velocity, both ends of the
\* program numbers, and the kinds load_midi_file skips.
Events ==
    {NoteOn(60, 64), NoteOn(47, 0), NoteOff(60, 64),
     ProgramChange(0), ProgramChange(127), MetaEvent}

\* The sequences of t tracks with at most n events in all.
RECURSIVE TracksWith(_, _)
TracksWith(t, n) ==
    IF t = 0 THEN {<< >>}
    ELSE UNION {{<<tr>> \o rest : rest \in TracksWith(t - 1, n - Len(tr))} :
                    tr \in SeqsUpTo(Events, n)}

\* What reading and parsing can give: an error, or a file of at most tracks
\* tracks and notes events.
Files(tracks, notes) ==
    {Unreadable, Malformed}
    \cup {Smf(tr) : tr \in UNION {TracksWith(t, notes) : t \in 0..tracks}}

\* The files on disk while the application runs.
SampleFiles ==
    {Unreadable, Malformed,
     Smf(<< <<NoteOn(60, 64), NoteOn(47, 0)>> >>),
     Smf(<< <<ProgramChange(0), NoteOn(95, 1)>>, <<NoteOff(60, 64), MetaEvent>> >>)}

Paths ==
    {<<"a", ".", "m", "i", "d">>,
     <<"b", ".", "m", "i", "d", "i">>,
     <<"c", ".", "m", "i", "d", "x">>,
     <<BadUnit, ".", "m", "i", "d">>}

DroppedFiles == {[path |-> None]} \cup {[path |-> Some(p)] : p \in Paths}

(***************************************************************************)
(* Specifications                                                          *)
(***************************************************************************)

\* SpecMapping: chromatic_planck_mapping applied to a layout and a base key.
InitMapping ==
    /\ layout \in [rows : Layouts(MaxRows, MaxRowLen), base_key : BaseKeys]
    /\ mapping_ret = "none"
    /\ key_to_keyboard_mapping = << >>
    /\ program_to_string_mapping = program_to_string
    /\ picked_midi_path = None
    /\ midi_key_tracks = << >>
    /\ event = NoEvent
    /\ call = None
    /\ last_ok = None

Construct ==
    /\ mapping_ret = "none"
    /\ LET r == chromatic_planck_mapping(layout.base_key, layout.rows)
       IN  /\ mapping_ret' = r.ret
           /\ key_to_keyboard_mapping' = r.map
    /\ UNCHANGED <<picked_midi_path, midi_key_tracks, program_to_string_mapping,
                   layout, event, call, last_ok>>

NextMapping == Construct

SpecMapping == InitMapping /\ [][NextMapping]_vars

\* The state MyApp::default() leaves.
Init ==
    /\ layout = [rows |-> default_planck_rows, base_key |-> "ESC"]
    /\ mapping_ret = chromatic_planck_mapping("ESC", default_planck_rows).ret
    /\ key_to_keyboard_mapping = MyApp_default.key_to_keyboard_mapping
    /\ program_to_string_mapping = MyApp_default.program_to_string_mapping
    /\ picked_midi_path = MyApp_default.picked_midi_path
    /\ midi_key_tracks = MyApp_default.midi_key_tracks
    /\ event = NoEvent
    /\ call = None
    /\ last_ok = None

\* SpecLoad: load_midi_file applied once to a file, on the fresh application.
LoadFile ==
    /\ call = None
    /\ \E path \in Paths, file \in Files(MaxTracks, MaxNotes) : Load(path, file)
    /\ UNCHANGED <<layout, mapping_ret, event>>

NextLoad == LoadFile

SpecLoad == Init /\ [][NextLoad]_vars

\* Spec: the frames of the running application, one input event each.
\* update(): the "Open MIDI file" button was clicked and the dialog returned
\* picked (None when it was cancelled).
OpenButton ==
    \E picked \in {None} \cup {Some(p) : p \in Paths} :
        /\ event' = [kind |-> "button", picked |-> picked, dropped_files |-> << >>]
        /\ IF picked # None
           THEN \E file \in SampleFiles : Load(display(picked[1]), file)
           ELSE NoLoad
        /\ UNCHANGED <<layout, mapping_ret>>

\* collect_dropped_files(): files were dropped on the window.
DropFiles ==
    \E dropped_files \in SeqsUpTo(DroppedFiles, MaxDropped) :
        /\ event' = [kind |-> "drop", picked |-> None, dropped_files |-> dropped_files]
        /\ LET path == IF dropped_files # << >>
                       THEN DroppedMidiPath(dropped_files)
                       ELSE None
           IN  IF path # None
               THEN \E file \in SampleFiles : Load(path[1], file)
               ELSE NoLoad
        /\ UNCHANGED <<layout, mapping_ret>>

Next == OpenButton \/ DropFiles

Spec == Init /\ [][Next]_vars

(***************************************************************************)
(* Properties                                                              *)
(***************************************************************************)

\* The 0-based row-major index of the key at row r, column c of rows.
RECURSIVE KeysBefore(_, _)
KeysBefore(rows, r) ==
    IF r = 1 THEN 0 ELSE KeysBefore(rows, r - 1) + Len(rows[r - 1])

Positions(rows) == UNION {{<<r, c>> : c \in DOMAIN rows[r]} : r \in DOMAIN rows}

IndexOf(rows, p) == KeysBefore(rows, p[1]) + (p[2] - 1)

LabelAt(rows, p) == rows[p[1]][p[2]]

Occurrences(rows, key) ==
    {IndexOf(rows, p) : p \in {q \in Positions(rows) : LabelAt(rows, q) = key}}

Min(S) == CHOOSE x \in S : \A y \in S : x <= y

\* C1: for a base key that occurs in the layout, with b the row-major index of
\* its first occurrence, chromatic_planck_mapping returns the map that sends
\* pitch 60 to the base key and, for every position i with
\* 0 <= 60 + (i - b) <= 255, pitch 60 + (i - b) to the label at position i, and
\* that has no other pitch.
C1_ChromaticAnchoredAtMiddleC ==
    (mapping_ret # "none" /\ Occurrences(layout.rows, layout.base_key) # {}) =>
        LET rows == layout.rows
            b == Min(Occurrences(rows, layout.base_key))
            Pitch(p) == 60 + (IndexOf(rows, p) - b)
            InU8 == {p \in Positions(rows) : Pitch(p) >= 0 /\ Pitch(p) <= 255}
        IN  /\ mapping_ret = "Ok"
            /\ 60 \in DOMAIN key_to_keyboard_mapping
            /\ key_to_keyboard_mapping[60] = layout.base_key
            /\ DOMAIN key_to_keyboard_mapping = {Pitch(p) : p \in InU8}
            /\ \A p \in InU8 : key_to_keyboard_mapping[Pitch(p)] = LabelAt(rows, p)

\* C1 witness: the mapping of a layout whose base key occurs twice, the first
\* time more than 60 keys in, so that the first keys fall below pitch 0.
C1_Witness ==
    /\ mapping_ret = "Ok"
    /\ Cardinality(Occurrences(layout.rows, layout.base_key)) >= 2
    /\ Min(Occurrences(layout.rows, layout.base_key)) > 60
    /\ Cardinality(DOMAIN key_to_keyboard_mapping)
           < Cardinality(Positions(layout.rows))

\* C2: the application's mapping has exactly the 48 pitches 48..95, pitch
\* 48 + 12 * (r - 1) + (c - 1) being the key at row r, column c of the 4 x 12
\* default layout; 48 is "TAB", 60 is "ESC", 95 is "->".
C2_DefaultMapping ==
    /\ Len(layout.rows) = 4
    /\ \A r \in 1..4 : Len(layout.rows[r]) = 12
    /\ layout.base_key = "ESC"
    /\ DOMAIN key_to_keyboard_mapping = 48..95
    /\ Cardinality(DOMAIN key_to_keyboard_mapping) = 48
    /\ \A r \in 1..4 : \A c \in 1..12 :
           key_to_keyboard_mapping[48 + 12 * (r - 1) + (c - 1)] = layout.rows[r][c]
    /\ key_to_keyboard_mapping[48] = "TAB"
    /\ key_to_keyboard_mapping[60] = "ESC"
    /\ key_to_keyboard_mapping[95] = "->"

\* C2 witness: a file was loaded whose notes hit the last mapped pitch.
C2_Witness ==
    /\ call # None
    /\ \E t \in DOMAIN midi_key_tracks :
           \E j \in DOMAIN midi_key_tracks[t].midi_key_pairs :
               /\ midi_key_tracks[t].midi_key_pairs[j].midi_key = 95
               /\ midi_key_tracks[t].midi_key_pairs[j].keyboard_key = <<"->">>

IsNoteOn(e) == e.kind = "Midi" /\ e.message = "NoteOn"

IsProgramChange(e) == e.kind = "Midi" /\ e.message = "ProgramChange"

\* The last call of load_midi_file succeeded.
Loaded == call # None /\ call[1].ret = "Ok"

\* C3: after a successful load there is one entry per track of the file, in
\* file order, and the pairs of entry t are the NoteOn events of track t in
\* order, whatever their velocity: the event's key, and the mapping's label
\* for it or None.
C3_PairsAreTheNoteOns ==
    Loaded =>
        LET tracks == call[1].file.tracks
        IN  /\ Len(midi_key_tracks) = Len(tracks)
            /\ \A t \in DOMAIN tracks :
                   LET ons == SelectSeq(tracks[t], IsNoteOn)
                       pairs == midi_key_tracks[t].midi_key_pairs
                   IN  /\ Len(pairs) = Len(ons)
                       /\ \A j \in DOMAIN ons :
                              /\ pairs[j].midi_key = ons[j].key
                              /\ pairs[j].keyboard_key =
                                     IF ons[j].key \in DOMAIN key_to_keyboard_mapping
                                     THEN <<key_to_keyboard_mapping[ons[j].key]>>
                                     ELSE << >>

\* C3 witness: a loaded two-track file with a track that holds a mapped note,
\* an unmapped note of velocity 0 and an event that is no NoteOn.
C3_Witness ==
    /\ Loaded
    /\ Len(midi_key_tracks) = 2
    /\ \E t \in DOMAIN midi_key_tracks :
           LET pairs == midi_key_tracks[t].midi_key_pairs
           IN  /\ Len(call[1].file.tracks[t]) > Len(pairs)
               /\ \E e \in Range(call[1].file.tracks[t]) : IsNoteOn(e) /\ e.vel = 0
               /\ \E j \in DOMAIN pairs : pairs[j].keyboard_key = None
               /\ \E j \in DOMAIN pairs : pairs[j].keyboard_key # None

\* The names the program table can give a track.
InstrumentNames == {<<program_to_string_mapping[p]>> : p \in DOMAIN program_to_string_mapping}

\* C4: every program number 0..127 has an entry in the table, so a track with
\* a ProgramChange event is named by the table, never left with its default.
C4_EveryProgramHasAName ==
    /\ \A p \in 0..127 : p \in DOMAIN program_to_string_mapping
    /\ Loaded =>
           \A t \in DOMAIN midi_key_tracks :
               (\E e \in Range(call[1].file.tracks[t]) : IsProgramChange(e))
                   => midi_key_tracks[t].name \in InstrumentNames

\* C4 witness: a loaded track whose only program change is program 0.
C4_Witness ==
    /\ Loaded
    /\ \E t \in DOMAIN midi_key_tracks :
           /\ \E e \in Range(call[1].file.tracks[t]) : IsProgramChange(e)
           /\ \A e \in Range(call[1].file.tracks[t]) :
                  IsProgramChange(e) => e.program = 0
           /\ midi_key_tracks[t].name = <<"Piano">>

\* C5: after any sequence of load events the cache is what the most recent
\* successful load produces on its own, on a fresh application: as many
\* entries as that file has tracks; and it is empty while no load has succeeded.
C5_CacheIsLastSuccessfulLoad ==
    IF last_ok = None
    THEN midi_key_tracks = << >>
    ELSE /\ Len(midi_key_tracks) = Len(last_ok[1].tracks)
         /\ midi_key_tracks =
                load_midi_file(MyApp_default, <<"x">>, last_ok[1]).midi_key_tracks

\* C5 witness: a load has failed after a two-track file was loaded, and the
\* cache still holds that file's two tracks.
C5_Witness ==
    /\ last_ok # None
    /\ Len(last_ok[1].tracks) = 2
    /\ call # None
    /\ call[1].ret # "Ok"
    /\ Len(midi_key_tracks) = 2

\* C6: in a loaded file a track with at least one ProgramChange event is named
\* after the program of the last one, wherever its NoteOn events are and
\* whatever the other tracks hold.
C6_NamedAfterLastProgramChange ==
    Loaded =>
        \A t \in DOMAIN call[1].file.tracks :
            LET pcs == SelectSeq(call[1].file.tracks[t], IsProgramChange)
            IN  pcs # << >> =>
                    /\ pcs[Len(pcs)].program \in DOMAIN program_to_string_mapping
                    /\ midi_key_tracks[t].name =
                           <<program_to_string_mapping[pcs[Len(pcs)].program]>>

\* C6 witness: a loaded track that starts with a NoteOn and then changes
\* program twice, to different programs.
C6_Witness ==
    /\ Loaded
    /\ \E t \in DOMAIN call[1].file.tracks :
           LET track == call[1].file.tracks[t]
           IN  /\ Len(track) = 3
               /\ IsNoteOn(track[1])
               /\ IsProgramChange(track[2])
               /\ IsProgramChange(track[3])
               /\ track[2].program # track[3].program
               /\ midi_key_tracks[t].name = <<program_to_string_mapping[track[3].program]>>

\* The tracks among the first t of a file that hold no ProgramChange event.
Unprogrammed(tracks, t) ==
    {u \in 1..t : \A e \in Range(tracks[u]) : ~IsProgramChange(e)}

\* C7: in a loaded file the k-th track without a ProgramChange event is named
\* "Channel k", whatever the number of events in the tracks before it.
C7_KthUnprogrammedTrackIsChannelK ==
    Loaded =>
        \A t \in DOMAIN call[1].file.tracks :
            t \in Unprogrammed(call[1].file.tracks, t) =>
                midi_key_tracks[t].name =
                    <<"Channel ">> \o Decimal(Cardinality(Unprogrammed(call[1].file.tracks, t)))

\* C8: a load that fails because the file cannot be read or cannot be parsed
\* returns IOError or MidlyError accordingly, leaves the cache and both tables
\* as they were, and leaves picked_midi_path at the attempted path.
C8_FailedLoadKeepsCache ==
    [][(call' # None /\ call'[1].file.kind # "smf") =>
           /\ call'[1].ret = (IF call'[1].file.kind = "unreadable"
                              THEN "IOError" ELSE "MidlyError")
           /\ midi_key_tracks' = midi_key_tracks
           /\ key_to_keyboard_mapping' = key_to_keyboard_mapping
           /\ program_to_string_mapping' = program_to_string_mapping
           /\ picked_midi_path' = <<call'[1].path>>
           /\ event'.kind = "button" =>
                  \A i \in DOMAIN event'.picked[1] :
                      event'.picked[1][i] # BadUnit =>
                          picked_midi_path'[1][i] = event'.picked[1][i]
           /\ event'.kind = "drop" =>
                  \E i \in DOMAIN event'.dropped_files :
                      event'.dropped_files[i].path = picked_midi_path']_vars

\* C8 witness: a parse error on a picked file while the cache holds tracks.
C8_Witness ==
    /\ call # None
    /\ call[1].ret = "MidlyError"
    /\ event.kind = "button"
    /\ midi_key_tracks # << >>
    /\ picked_midi_path = <<call[1].path>>

\* A path whose last units spell ".mid" or ".midi".
EndsInMid(p) ==
    \E k \in 0..Len(p) : SubSeq(p, k + 1, Len(p)) \in {DotMid, DotMidi}

\* The dropped files, by position, that have a path ending in .mid or .midi.
MidiDrops(dropped_files) ==
    {i \in DOMAIN dropped_files :
        /\ dropped_files[i].path # None
        /\ EndsInMid(dropped_files[i].path[1])}

\* Those of them whose path is valid Unicode.
UnicodeMidiDrops(dropped_files) ==
    {i \in MidiDrops(dropped_files) : BadUnit \notin Range(dropped_files[i].path[1])}

\* A drop event that loads the first of the files `matching`, or nothing and
\* changes nothing when there is none.
LoadsFirstOf(matching) ==
    event'.kind = "drop" =>
        IF matching # {}
        THEN /\ call' # None
             /\ <<call'[1].path>> = event'.dropped_files[Min(matching)].path
             /\ picked_midi_path' = <<call'[1].path>>
        ELSE /\ call' = None
             /\ UNCHANGED <<picked_midi_path, midi_key_tracks>>

\* C9 as stated: a drop event loads exactly the first dropped file that has a
\* path ending in ".mid" or ".midi", and changes neither picked_midi_path nor
\* the cache when no dropped file has one.
C9_LoadsFirstMidiDrop ==
    [][LoadsFirstOf(MidiDrops(event'.dropped_files))]_vars

\* C9 amended: a drop event loads exactly the first dropped file whose path is
\* valid Unicode and ends in ".mid" or ".midi", and changes neither
\* picked_midi_path nor the cache when no dropped file has such a path.
C9_LoadsFirstUnicodeMidiDrop ==
    [][LoadsFirstOf(UnicodeMidiDrops(event'.dropped_files))]_vars

\* C9 witness: two files with different matching paths were dropped, and the
\* first was loaded.
C9_Witness ==
    /\ event.kind = "drop"
    /\ Len(event.dropped_files) = 2
    /\ UnicodeMidiDrops(event.dropped_files) = {1, 2}
    /\ event.dropped_files[1].path # event.dropped_files[2].path
    /\ call # None
    /\ <<call[1].path>> = event.dropped_files[1].path

====
